---- MODULE Spec2Model ----
(***************************************************************************)
(* Model of the JSON-RPC dispatch loop of server.py (grok-mcp): startup    *)
(* (init_grok), the read-decode-route-write loop of main(), the tool       *)
(* handlers, the outbound gateway call and the shutdown signal handler.    *)
(*                                                                         *)
(* Python values are modelled as follows.                                  *)
(*  - a dict is a function from key strings to values; dict.get is Get;    *)
(*  - a JSON value whose type matters is a tagged record: Obj(f) for an    *)
(*    object, NonObj for any value that has no .get (array, number,        *)
(*    string, null), Str(s) / Num / List(n) for argument values;           *)
(*  - None (JSON null, or the default of dict.get) is the token None;      *)
(*  - a string is a sequence of runs [c |-> character, n |-> repetitions], *)
(*    so that texts longer than the 100000/500000 character limits can be  *)
(*    written down; the string operators work on runs as Python's work on *)
(*    characters.                                                          *)
(***************************************************************************)
EXTENDS Integers, Sequences, FiniteSets, TLC

\* ------------------------------------------------------------------ bounds
\* Number of input lines the environment offers before end-of-input.
MaxLines == 2
\* Longest generated focus string, in runs of one character.
MaxRuns == 2

\* ------------------------------------------------------- program constants
MAX_PROMPT_LENGTH == 100000
MAX_CODE_LENGTH == 500000
MAX_FOCUS_LENGTH == 50
METHOD_NOT_FOUND == -32601
INTERNAL_ERROR == -32603
VERSION == "1.3.0"
DEFAULT_MODEL == "grok-4-1-fast-reasoning"

\* ------------------------------------------------------------ Python values
None == "None"
\* The local request_id of main() before its first assignment
\* ('request_id' in locals() is false).
Unbound == "Unbound"

EmptyMap == [k \in {} |-> k]
Obj(f) == [t |-> "obj", o |-> f]
NonObj == [t |-> "other"]
IsDict(v) == v.t = "obj"

Str(s) == [t |-> "str", s |-> s]
\* A value len() rejects: a number, a boolean, null.
Num == [t |-> "num"]
\* A value that has a length and slices but no string methods: an array,
\* here of n one-digit numbers.
List(n) == [t |-> "list", n |-> n]

\* dict.get(key, default)
Get(d, key, default) == IF key \in DOMAIN d THEN d[key] ELSE default

\* ------------------------------------------------------------------ strings
Run(c, n) == [c |-> c, n |-> n]
IsSpace(c) == c \in {" ", "\n", "\r"}

RECURSIVE StrLen(_)
StrLen(s) == IF s = <<>> THEN 0 ELSE Head(s).n + StrLen(Tail(s))

\* text[:k]
RECURSIVE Slice(_, _)
Slice(s, k) ==
    IF s = <<>> \/ k <= 0 THEN <<>>
    ELSE IF Head(s).n <= k THEN <<Head(s)>> \o Slice(Tail(s), k - Head(s).n)
    ELSE <<Run(Head(s).c, k)>>

RECURSIVE LStrip(_)
LStrip(s) == IF s # <<>> /\ IsSpace(Head(s).c) THEN LStrip(Tail(s)) ELSE s

RECURSIVE RStrip(_)
RStrip(s) ==
    IF s # <<>> /\ IsSpace(s[Len(s)].c) THEN RStrip(SubSeq(s, 1, Len(s) - 1)) ELSE s

\* text.strip()
Strip(s) == RStrip(LStrip(s))

\* text.replace("\n", " "), runs that become adjacent are merged
RECURSIVE Merge(_)
Merge(s) ==
    IF Len(s) < 2 THEN s
    ELSE IF s[1].c = s[2].c
         THEN Merge(<<Run(s[1].c, s[1].n + s[2].n)>> \o SubSeq(s, 3, Len(s)))
         ELSE <<s[1]>> \o Merge(Tail(s))

ReplaceNewlines(s) ==
    Merge([i \in 1..Len(s) |-> IF s[i].c = "\n" THEN Run(" ", s[i].n) ELSE s[i]])

\* truncate_input(text, max_length, field_name); field_name is only logged
truncate_input(text, max_length, field_name) ==
    IF StrLen(text) > max_length THEN Slice(text, max_length) ELSE text

\* A list sliced like a string: value[:k]
SliceValue(v, k) == IF v.t = "list" THEN List(IF v.n <= k THEN v.n ELSE k) ELSE Str(Slice(v.s, k))

\* bool(value) of a string or a list
Truthy(v) == IF v.t = "list" THEN v.n > 0 ELSE v.s # <<>>

\* len(f"{value}"): a string is embedded as it is, an array as its repr,
\* "[0, 0, 0]": brackets, one digit per element, ", " between elements.
FormatLen(v) == IF v.t = "list" THEN (IF v.n = 0 THEN 2 ELSE 3 * v.n) ELSE StrLen(v.s)

Lit(chars) == [i \in 1..Len(chars) |-> Run(chars[i], 1)]
GENERAL == Lit(<<"g", "e", "n", "e", "r", "a", "l">>)
\* "sec\nurity!!"
SEC_URITY == <<Run("s", 1), Run("e", 1), Run("c", 1), Run("\n", 1), Run("u", 1), Run("r", 1),
               Run("i", 1), Run("t", 1), Run("y", 1), Run("!", 2)>>

\* ------------------------------------------------------------------- state
VARIABLES
    environ,             \* value of XAI_API_KEY in the process environment (None: unset)
    API_KEY,             \* global API_KEY
    GROK_AVAILABLE,      \* global GROK_AVAILABLE
    GROK_ERROR,          \* global GROK_ERROR
    shutdown_requested,  \* global shutdown_requested
    pc,                  \* position of the process: "init", "top", "read", "call", "stopped"
    request_id,          \* local request_id of main(), kept across iterations
    line,                \* the line returned by the last readline()
    nread,               \* number of lines read so far
    stdout,              \* the lines written to standard output, in order; of each
                         \* line its id and its result-or-error member are kept
    sent,                \* the line written by the iteration of the last line read,
                         \* in full; NoLine while that iteration has written none
    inflight,            \* the call_grok() invocation in progress, or NoCall
    posts,               \* number of requests.post() calls made for the last line read
    nonblank             \* number of lines read so far that were not blank

vars == <<environ, API_KEY, GROK_AVAILABLE, GROK_ERROR, shutdown_requested, pc,
          request_id, line, nread, stdout, sent, inflight, posts, nonblank>>

NoLine == [kind |-> "none"]
NoCall == [tool |-> "none"]

\* ----------------------------------------------------------- response codec
ResultResponse(id, result) == [jsonrpc |-> "2.0", id |-> id, result |-> result]

\* Mutant: an error response that carries a result member too.
ErrorResponse_WithResult(id, code, message) ==
    [jsonrpc |-> "2.0", id |-> id, result |-> None,
     error |-> [code |-> code, message |-> message]]

ErrorResponse(id, code, message) ==
    [jsonrpc |-> "2.0", id |-> id, error |-> [code |-> code, message |-> message]]

IsResult(r) == "result" \in DOMAIN r /\ "error" \notin DOMAIN r
IsError(r) == "error" \in DOMAIN r /\ "result" \notin DOMAIN r

\* What stdout keeps of a line: its members, with the id, the error code and
\* the fact that there is a result.
Envelope(r) ==
    [k \in DOMAIN r |-> IF k = "error" THEN [code |-> r.error.code]
                        ELSE IF k = "result" THEN "..."
                        ELSE r[k]]

\* send_response(response): json.dumps of a dict built from decoded JSON and
\* strings cannot fail, so the line is appended to standard output.
send_response(out, response) == Append(out, Envelope(response))

\* --------------------------------------------------------------- handlers
handle_initialize(id) ==
    ResultResponse(id, [protocolVersion |-> "2024-11-05",
                        capabilities |-> [tools |-> EmptyMap, resources |-> EmptyMap,
                                          prompts |-> EmptyMap],
                        serverInfo |-> [name |-> "grok-mcp", version |-> VERSION]])

FullTools ==
    << [name |-> "ask", required |-> <<"prompt">>],
       [name |-> "code_review", required |-> <<"code">>],
       [name |-> "brainstorm", required |-> <<"topic">>] >>

DegradedTools == << [name |-> "server_info", required |-> <<>>] >>

\* Mutant: the status tool is listed in full mode too.
handle_tools_list_AlwaysInfo(id, available) ==
    ResultResponse(id, [tools |-> IF available THEN FullTools \o DegradedTools
                                  ELSE DegradedTools])

handle_tools_list(id, available) ==
    ResultResponse(id, [tools |-> IF available THEN FullTools ELSE DegradedTools])

ListResources(id) == ResultResponse(id, [resources |-> <<>>])
ListPrompts(id) == ResultResponse(id, [prompts |-> <<>>])

\* Mutant: an unknown method is reported as an internal error.
MethodNotFound_WrongCode(id, method) ==
    ErrorResponse(id, INTERNAL_ERROR, <<"Method not found: ", method>>)

MethodNotFound(id, method) ==
    ErrorResponse(id, METHOD_NOT_FOUND, <<"Method not found: ", method>>)

\* ------------------------------------------------------------- tool bodies
\* Outcome of the body of the try block of handle_tool_call, up to the point
\* where it either has its result text, raises, or enters call_grok.
Text(parts) == [k |-> "text", result |-> parts]
Raise(message) == [k |-> "raise", message |-> message]
Call(prompt, system_prompt) == [k |-> "call", prompt |-> prompt, system_prompt |-> system_prompt]

Unavailable(error) == Text(<<"Grok not available: ", error>>)

\* len(value) raises for a number or null; value.strip() raises for a list.
NoLen == Raise(<<"object of type 'int' has no len()">>)
NoStrip == Raise(<<"'list' object has no attribute 'strip'">>)
NoGet == Raise(<<"'list' object has no attribute 'get'">>)

\* Mutant: the status tool fails when Grok is not available.
ServerInfo_RaisesWhenDegraded(available, error) ==
    IF available
    THEN Text(<<"Server v", VERSION, " - Grok connected and ready! Model: ", DEFAULT_MODEL>>)
    ELSE Raise(<<"Grok not available: ", error>>)

\* tool_name == "server_info"
ServerInfo(available, error) ==
    IF available
    THEN Text(<<"Server v", VERSION, " - Grok connected and ready! Model: ", DEFAULT_MODEL>>)
    ELSE Text(<<"Server v", VERSION, " - Grok error: ", error>>)

\* Mutant: the prompt is validated before availability is looked at.
Ask_ValidateFirst(arguments, available, error) ==
    IF ~IsDict(arguments) THEN NoGet
    ELSE LET prompt0 == Get(arguments.o, "prompt", Str(<<>>)) IN
         IF prompt0.t = "num" THEN NoLen
         ELSE IF prompt0.t = "list" THEN NoStrip
         ELSE LET prompt == truncate_input(prompt0.s, MAX_PROMPT_LENGTH, "prompt") IN
              IF Strip(prompt) = <<>> THEN Raise(<<"prompt cannot be empty">>)
              ELSE IF ~available THEN Unavailable(error)
              ELSE Call([template |-> "ask", prompt |-> prompt], None)

\* Mutant: the prompt is tested without strip().
Ask_NoStrip(arguments, available, error) ==
    IF ~available THEN Unavailable(error)
    ELSE IF ~IsDict(arguments) THEN NoGet
    ELSE LET prompt0 == Get(arguments.o, "prompt", Str(<<>>)) IN
         IF prompt0.t = "num" THEN NoLen
         ELSE IF prompt0.t = "list" THEN Call([template |-> "ask", prompt |-> <<>>], None)
         ELSE LET prompt == truncate_input(prompt0.s, MAX_PROMPT_LENGTH, "prompt") IN
              IF prompt = <<>> THEN Raise(<<"prompt cannot be empty">>)
              ELSE Call([template |-> "ask", prompt |-> prompt], None)

\* tool_name == "ask"
Ask(arguments, available, error) ==
    IF ~available THEN Unavailable(error)
    ELSE IF ~IsDict(arguments) THEN NoGet
    ELSE LET prompt0 == Get(arguments.o, "prompt", Str(<<>>)) IN
         IF prompt0.t = "num" THEN NoLen
         ELSE IF prompt0.t = "list" THEN NoStrip
         ELSE LET prompt == truncate_input(prompt0.s, MAX_PROMPT_LENGTH, "prompt") IN
              IF Strip(prompt) = <<>> THEN Raise(<<"prompt cannot be empty">>)
              ELSE Call([template |-> "ask", prompt |-> prompt], None)

\* Mutant: the focus is not cut to 50 characters.
SanitizeFocus_NoCut(focus) ==
    LET f == Strip(ReplaceNewlines(focus)) IN
    IF f = <<>> THEN GENERAL ELSE f

\* focus[:50].replace("\n", " ").strip() or "general"
SanitizeFocus(focus) ==
    LET f == Strip(ReplaceNewlines(Slice(focus, MAX_FOCUS_LENGTH))) IN
    IF f = <<>> THEN GENERAL ELSE f

\* tool_name == "code_review"
CodeReview(arguments, available, error) ==
    IF ~available THEN Unavailable(error)
    ELSE IF ~IsDict(arguments) THEN NoGet
    ELSE LET code0 == Get(arguments.o, "code", Str(<<>>)) IN
         IF code0.t = "num" THEN NoLen
         ELSE IF code0.t = "list" THEN NoStrip
         ELSE LET code == truncate_input(code0.s, MAX_CODE_LENGTH, "code") IN
              IF Strip(code) = <<>> THEN Raise(<<"code cannot be empty">>)
              ELSE LET focus0 == Get(arguments.o, "focus", Str(GENERAL)) IN
                   IF focus0.t = "num" THEN Raise(<<"'int' object is not subscriptable">>)
                   ELSE IF focus0.t = "list"
                        THEN Raise(<<"'list' object has no attribute 'replace'">>)
                   ELSE Call([template |-> "code_review",
                              focus |-> SanitizeFocus(focus0.s), code |-> code],
                             "You are an expert code reviewer.")

\* tool_name == "brainstorm"
Brainstorm(arguments, available, error) ==
    IF ~available THEN Unavailable(error)
    ELSE IF ~IsDict(arguments) THEN NoGet
    ELSE LET topic0 == Get(arguments.o, "topic", Str(<<>>)) IN
         IF topic0.t = "num" THEN NoLen
         ELSE IF topic0.t = "list" THEN NoStrip
         ELSE LET topic == truncate_input(topic0.s, MAX_PROMPT_LENGTH, "topic") IN
              IF Strip(topic) = <<>> THEN Raise(<<"topic cannot be empty">>)
              ELSE LET context0 == Get(arguments.o, "context", Str(<<>>)) IN
                   IF context0.t = "num" THEN NoLen
                   ELSE LET context ==
                                IF context0.t = "list"
                                THEN (IF context0.n > MAX_PROMPT_LENGTH
                                      THEN SliceValue(context0, MAX_PROMPT_LENGTH)
                                      ELSE context0)
                                ELSE Str(truncate_input(context0.s, MAX_PROMPT_LENGTH, "context"))
                        IN Call([template |-> "brainstorm", topic |-> topic,
                                 context |-> IF Truthy(context) THEN <<context>> ELSE <<>>],
                                "You are a creative problem solver and brainstorming partner.")

\* Mutant: an unknown tool name falls through with the empty result.
ToolBody_UnknownFallsThrough(tool_name, arguments, available, error) ==
    CASE tool_name = "server_info" -> ServerInfo(available, error)
      [] tool_name = "ask" -> Ask(arguments, available, error)
      [] tool_name = "code_review" -> CodeReview(arguments, available, error)
      [] tool_name = "brainstorm" -> Brainstorm(arguments, available, error)
      [] OTHER -> Text(<<"">>)

\* The if/elif chain on tool_name inside the try block.
ToolBody(tool_name, arguments, available, error) ==
    CASE tool_name = "server_info" -> ServerInfo(available, error)
      [] tool_name = "ask" -> Ask(arguments, available, error)
      [] tool_name = "code_review" -> CodeReview(arguments, available, error)
      [] tool_name = "brainstorm" -> Brainstorm(arguments, available, error)
      [] OTHER -> Raise(<<"Unknown tool: ", tool_name>>)

\* The success envelope of handle_tool_call.
ToolResult(id, result) ==
    ResultResponse(id, [content |-> <<[type |-> "text",
                                       text |-> <<"GROK RESPONSE:\n\n">> \o result]>>])

\* The except branch of handle_tool_call.
ToolError(id, message) == ErrorResponse(id, INTERNAL_ERROR, message)

\* handle_tool_call(request_id, params) up to its return or its entry into
\* call_grok.  params.get is evaluated before the try block, so a params that
\* is no dict raises out of the function.
handle_tool_call(id, params, available, error) ==
    IF ~IsDict(params) THEN [k |-> "propagate", message |-> NoGet.message]
    ELSE LET tool_name == Get(params.o, "name", None)
             arguments == Get(params.o, "arguments", Obj(EmptyMap))
             body == ToolBody(tool_name, arguments, available, error)
         IN CASE body.k = "text" -> [k |-> "return", response |-> ToolResult(id, body.result)]
              [] body.k = "raise" -> [k |-> "return", response |-> ToolError(id, body.message)]
              [] body.k = "call" -> body

\* Mutant: requests.exceptions.Timeout is not caught.
call_grok_TimeoutRaises(prompt, system_prompt, http) ==
    IF http = "timeout"
    THEN [raised |-> TRUE, text |-> <<"HTTPSConnectionPool: Read timed out.">>]
    ELSE [raised |-> FALSE, text |-> <<"Error calling Grok: ", "<", http, ">">>]

\* call_grok(prompt, system_prompt): the text it returns for each answer of
\* the HTTP exchange.  Every branch returns; none raises.
call_grok(prompt, system_prompt, http) ==
    CASE http = "ok" -> [raised |-> FALSE, text |-> <<"<choices[0].message.content>">>]
      [] http = "status" ->
            [raised |-> FALSE, text |-> <<"Error calling Grok (HTTP ", "<status>", "): ", "<body>">>]
      [] http = "no_choices" ->
            [raised |-> FALSE, text |-> <<"Unexpected response format: ", "<result>">>]
      [] http = "timeout" ->
            [raised |-> FALSE, text |-> <<"Error calling Grok: Request timed out">>]
      [] http = "request_exception" ->
            [raised |-> FALSE, text |-> <<"Error calling Grok: ", "<RequestException>">>]
      [] http = "exception" ->
            [raised |-> FALSE, text |-> <<"Error calling Grok: ", "<Exception>">>]

\* What the HTTP exchange can do: 200 with choices, a status other than 200,
\* 200 without choices, requests.exceptions.Timeout, another
\* RequestException, any other exception (a body that is not the expected
\* JSON shape).
HttpOutcomes == {"ok", "status", "no_choices", "timeout", "request_exception", "exception"}

\* ------------------------------------------------------------------ inputs
\* A line that is empty after strip(); a line on which json.loads raises
\* JSONDecodeError; a line that json.loads decodes to the value v.
Blank == [kind |-> "blank"]
Invalid == [kind |-> "invalid"]
Json(v) == [kind |-> "json", value |-> v]

Ids == {None, "1", "2"}

LongBlank(max) == <<Run(" ", max), Run("a", 1)>>
TooLong(max) == <<Run("a", max + 1)>>

PromptValues ==
    { Str(<<>>), Str(<<Run(" ", 2)>>), Str(<<Run("a", 1), Run(" ", 1), Run("b", 1)>>),
      Str(LongBlank(MAX_PROMPT_LENGTH)), Str(TooLong(MAX_PROMPT_LENGTH)), Num, List(1) }

CodeValues ==
    { Str(<<>>), Str(<<Run("\n", 1)>>), Str(<<Run("x", 1), Run("=", 1), Run("1", 1)>>),
      Str(TooLong(MAX_CODE_LENGTH)), Num }

FocusValues ==
    { Str(<<>>), Str(SEC_URITY), Str(GENERAL),
      Str(LongBlank(MAX_FOCUS_LENGTH)), Str(TooLong(MAX_FOCUS_LENGTH)), Num }

TopicValues ==
    { Str(<<>>), Str(<<Run(" ", 1)>>), Str(<<Run("t", 1)>>),
      Str(TooLong(MAX_PROMPT_LENGTH)), Num }

ContextValues ==
    { Str(<<>>), Str(<<Run("c", 1)>>), Str(TooLong(MAX_PROMPT_LENGTH)), Num,
      List(MAX_PROMPT_LENGTH) }

GoodCode == Str(<<Run("x", 1), Run("=", 1), Run("1", 1)>>)
GoodTopic == Str(<<Run("t", 1)>>)

ToolNames == {"server_info", "ask", "code_review", "brainstorm", "nope"}

Arguments ==
    {NonObj, Obj(EmptyMap)}
    \cup {Obj([prompt |-> v]) : v \in PromptValues}
    \cup {Obj([code |-> v]) : v \in CodeValues}
    \cup {Obj([code |-> GoodCode, focus |-> v]) : v \in FocusValues}
    \cup {Obj([topic |-> v]) : v \in TopicValues}
    \cup {Obj([topic |-> GoodTopic, context |-> v]) : v \in ContextValues}

\* The arguments offered with each tool name: those of the tool itself, and
\* for every name a missing, an empty and a non-mapping arguments value.
ArgumentsFor(name) ==
    {a \in Arguments :
        \/ ~IsDict(a)
        \/ a.o = EmptyMap
        \/ name = "ask" /\ "prompt" \in DOMAIN a.o
        \/ name = "code_review" /\ "code" \in DOMAIN a.o
        \/ name = "brainstorm" /\ "topic" \in DOMAIN a.o
        \/ name \in {"server_info", "nope"} /\ a = Obj([code |-> GoodCode])}

ToolParams ==
    {NonObj, Obj([arguments |-> Obj(EmptyMap)])}
    \cup {Obj([name |-> n]) : n \in ToolNames}
    \cup UNION {{Obj([name |-> n, arguments |-> a]) : a \in ArgumentsFor(n)} : n \in ToolNames}

\* The params offered with a tools/call whose id is null.
NullIdToolParams ==
    {NonObj, Obj([name |-> "server_info"]), Obj([name |-> "nope"])}
    \cup {Obj([name |-> "ask", arguments |-> a]) : a \in ArgumentsFor("ask")}

PlainMethods == {"initialize", "tools/list", "resources/list", "prompts/list", "frobnicate"}
NotificationMethods == {"notifications/initialized", "notifications/cancelled"}

Requests ==
    {[method |-> m, id |-> i] : m \in PlainMethods \cup NotificationMethods, i \in Ids}
    \cup {[method |-> m] : m \in {"initialize", "notifications/cancelled"}}
    \cup {[id |-> i] : i \in Ids}
    \cup {[method |-> m, id |-> i, params |-> p] :
            m \in NotificationMethods, i \in Ids, p \in {NonObj, Obj([requestId |-> "1"])}}
    \cup {[method |-> "tools/list", id |-> i, params |-> NonObj] : i \in Ids}
    \cup {[method |-> "tools/call", id |-> i] : i \in Ids}
    \cup {[method |-> "tools/call", id |-> "7", params |-> p] : p \in ToolParams}
    \cup {[method |-> "tools/call", id |-> None, params |-> p] : p \in NullIdToolParams}

\* What readline() can return before end-of-input: a blank line, a line that
\* is not JSON, a JSON value that is not an object, a JSON object.
Lines == {Blank, Invalid, Json(NonObj)} \cup {Json(Obj(r)) : r \in Requests}

\* --------------------------------------------------------------- main loop
\* Outcome of one iteration: the value it leaves in request_id, the response
\* it sends (at most one), the call_grok it enters, whether it ends in break.
NoOutput(rid) == [request_id |-> rid, out |-> <<>>, call |-> NoCall, brk |-> FALSE]
\* Mutant: a message without an id is taken for a notification and gets no
\* response.
Respond_OnlyWithId(rid, response) ==
    IF rid = None THEN NoOutput(rid)
    ELSE [request_id |-> rid, out |-> <<response>>, call |-> NoCall, brk |-> FALSE]

Respond(rid, response) ==
    [request_id |-> rid, out |-> <<response>>, call |-> NoCall, brk |-> FALSE]
EnterCall(rid, h) ==
    [request_id |-> rid, out |-> <<>>, brk |-> FALSE,
     call |-> [tool |-> h.prompt.template, prompt |-> h.prompt,
               system_prompt |-> h.system_prompt]]

\* Mutant: the handler only logs.
ExceptHandler_Silent(rid, message) == NoOutput(rid)

\* Mutant: the handler answers and then leaves the loop.
ExceptHandler_Fatal(rid, message) ==
    [request_id |-> rid, call |-> NoCall, brk |-> TRUE,
     out |-> IF rid # Unbound /\ rid # None
             THEN <<ErrorResponse(rid, INTERNAL_ERROR, <<"Internal error: ">> \o message)>>
             ELSE <<>>]

\* except Exception in main(): an error response when request_id is bound
\* and not None.
ExceptHandler(rid, message) ==
    IF rid # Unbound /\ rid # None
    THEN Respond(rid, ErrorResponse(rid, INTERNAL_ERROR, <<"Internal error: ">> \o message))
    ELSE NoOutput(rid)

\* if not line: continue (the line is blank after strip)
BlankLine(rid) == NoOutput(rid)

\* Mutant: a line that is not JSON falls into the general except branch.
DecodeError_Answered(rid) == ExceptHandler(rid, <<"Expecting value">>)

\* except json.JSONDecodeError: continue
DecodeError(rid) == NoOutput(rid)

\* The routing of a decoded object, from request.get("method") on.
Route(request, available, error) ==
    LET method == Get(request, "method", None)
        id == Get(request, "id", None)
        params == Get(request, "params", Obj(EmptyMap))
    IN CASE method = "notifications/initialized" -> NoOutput(id)
         [] method = "notifications/cancelled" ->
                IF IsDict(params) THEN NoOutput(id) ELSE ExceptHandler(id, NoGet.message)
         [] method = "initialize" -> Respond(id, handle_initialize(id))
         [] method = "tools/list" -> Respond(id, handle_tools_list(id, available))
         [] method = "tools/call" ->
                LET h == handle_tool_call(id, params, available, error) IN
                (CASE h.k = "propagate" -> ExceptHandler(id, h.message)
                   [] h.k = "return" -> Respond(id, h.response)
                   [] h.k = "call" -> EnterCall(id, h))
         [] method = "resources/list" -> Respond(id, ListResources(id))
         [] method = "prompts/list" -> Respond(id, ListPrompts(id))
         [] OTHER -> Respond(id, MethodNotFound(id, method))

\* One iteration of the while loop on the line l, with rid the value of the
\* local request_id left by the earlier iterations.
Dispatch(l, rid, available, error) ==
    CASE l.kind = "blank" -> BlankLine(rid)
      [] l.kind = "invalid" -> DecodeError(rid)
      [] l.kind = "json" /\ ~IsDict(l.value) -> ExceptHandler(rid, NoGet.message)
      [] l.kind = "json" /\ IsDict(l.value) -> Route(l.value.o, available, error)

\* ----------------------------------------------------------------- actions
Init ==
    /\ environ \in {None, "", "xai-key"}
    /\ API_KEY = None
    /\ GROK_AVAILABLE = FALSE
    /\ GROK_ERROR = ""
    /\ shutdown_requested = FALSE
    /\ pc = "init"
    /\ request_id = Unbound
    /\ line = NoLine
    /\ nread = 0
    /\ stdout = <<>>
    /\ sent = NoLine
    /\ inflight = NoCall
    /\ posts = 0
    /\ nonblank = 0

\* init_grok(), called by run_server() after the signal handlers are set.
init_grok ==
    /\ pc = "init"
    /\ API_KEY' = environ
    /\ IF environ = None \/ environ = ""
       THEN /\ GROK_ERROR' = "XAI_API_KEY environment variable is not set"
            /\ UNCHANGED GROK_AVAILABLE
       ELSE /\ GROK_AVAILABLE' = TRUE
            /\ UNCHANGED GROK_ERROR
    /\ pc' = "top"
    /\ UNCHANGED <<environ, shutdown_requested, request_id, line, nread, stdout,
                   sent, inflight, posts, nonblank>>

\* Mutant: the signal ends the loop at once, whatever it was doing.
handle_shutdown_Abort ==
    /\ pc # "stopped"
    /\ shutdown_requested' = TRUE
    /\ pc' = "stopped"
    /\ UNCHANGED <<environ, API_KEY, GROK_AVAILABLE, GROK_ERROR, request_id, line,
                   nread, stdout, sent, inflight, posts, nonblank>>

\* handle_shutdown(signum, frame): SIGTERM or SIGINT delivered.
handle_shutdown ==
    /\ pc # "stopped"
    /\ shutdown_requested' = TRUE
    /\ UNCHANGED <<environ, API_KEY, GROK_AVAILABLE, GROK_ERROR, pc, request_id, line,
                   nread, stdout, sent, inflight, posts, nonblank>>

\* while not shutdown_requested:
LoopTest ==
    /\ pc = "top"
    /\ pc' = IF shutdown_requested THEN "stopped" ELSE "read"
    /\ UNCHANGED <<environ, API_KEY, GROK_AVAILABLE, GROK_ERROR, shutdown_requested,
                   request_id, line, nread, stdout, sent, inflight, posts, nonblank>>

\* readline() returns "": end-of-input, break.
ReadEOF ==
    /\ pc = "read"
    /\ pc' = "stopped"
    /\ UNCHANGED <<environ, API_KEY, GROK_AVAILABLE, GROK_ERROR, shutdown_requested,
                   request_id, line, nread, stdout, sent, inflight, posts, nonblank>>

\* readline() returns the line l and the iteration runs to its end, or to
\* the point where call_grok waits for the HTTP exchange.
ReadLine(l) ==
    /\ pc = "read"
    /\ nread < MaxLines
    /\ LET d == Dispatch(l, request_id, GROK_AVAILABLE, GROK_ERROR) IN
       /\ request_id' = d.request_id
       /\ stdout' = IF d.out = <<>> THEN stdout ELSE send_response(stdout, d.out[1])
       /\ sent' = IF d.out = <<>> THEN NoLine ELSE d.out[1]
       /\ inflight' = d.call
       /\ posts' = IF d.call = NoCall THEN 0 ELSE 1
       /\ pc' = IF d.brk THEN "stopped" ELSE IF d.call = NoCall THEN "top" ELSE "call"
    /\ line' = l
    /\ nread' = nread + 1
    /\ nonblank' = IF l.kind = "blank" THEN nonblank ELSE nonblank + 1
    /\ UNCHANGED <<environ, API_KEY, GROK_AVAILABLE, GROK_ERROR, shutdown_requested>>

\* The rest of handle_tool_call once call_grok has returned r (or raised
\* into the except branch).
AfterCall(id, r) == IF r.raised THEN ToolError(id, r.text) ELSE ToolResult(id, r.text)

\* Mutant: a failed HTTP exchange marks Grok as not available.
GatewayReturn_MarksUnavailable(http) ==
    /\ pc = "call"
    /\ LET response ==
               AfterCall(request_id, call_grok(inflight.prompt, inflight.system_prompt, http))
       IN /\ stdout' = send_response(stdout, response)
          /\ sent' = response
    /\ inflight' = NoCall
    /\ pc' = "top"
    /\ IF http \in {"timeout", "request_exception"}
       THEN GROK_AVAILABLE' = FALSE /\ GROK_ERROR' = "Grok unreachable"
       ELSE UNCHANGED <<GROK_AVAILABLE, GROK_ERROR>>
    /\ UNCHANGED <<environ, API_KEY, shutdown_requested, request_id, line, nread, posts, nonblank>>

\* Mutant: a request that timed out is posted a second time.
GatewayReturn_Retry(http) ==
    /\ pc = "call"
    /\ IF http = "timeout" /\ posts < 2
       THEN /\ posts' = posts + 1
            /\ UNCHANGED <<stdout, sent, inflight, pc>>
       ELSE /\ LET response ==
                      AfterCall(request_id,
                                call_grok(inflight.prompt, inflight.system_prompt, http))
               IN /\ stdout' = send_response(stdout, response)
                  /\ sent' = response
            /\ inflight' = NoCall
            /\ pc' = "top"
            /\ UNCHANGED posts
    /\ UNCHANGED <<environ, API_KEY, GROK_AVAILABLE, GROK_ERROR, shutdown_requested,
                   request_id, line, nread, nonblank>>

\* The HTTP exchange ends with the outcome http; call_grok returns, and
\* handle_tool_call and main finish the iteration.
GatewayReturn(http) ==
    /\ pc = "call"
    /\ LET response ==
               AfterCall(request_id, call_grok(inflight.prompt, inflight.system_prompt, http))
       IN /\ stdout' = send_response(stdout, response)
          /\ sent' = response
    /\ inflight' = NoCall
    /\ pc' = "top"
    /\ UNCHANGED <<environ, API_KEY, GROK_AVAILABLE, GROK_ERROR, shutdown_requested,
                   request_id, line, nread, posts, nonblank>>

Next ==
    \/ init_grok
    \/ handle_shutdown
    \/ LoopTest
    \/ ReadEOF
    \/ \E l \in Lines : ReadLine(l)
    \/ \E http \in HttpOutcomes : GatewayReturn(http)

Spec == Init /\ [][Next]_vars

\* ------------------------------------------------- the loop on focus strings
\* The same program on a run whose one line is a code_review call, with
\* every focus string of at most MaxRuns runs of a letter, a space, a
\* newline or a carriage return, each run of a length at or next to the
\* 50-character cut.
FocusChars == {"a", " ", "\n", "\r"}
RunLengths == {1, MAX_FOCUS_LENGTH - 1, MAX_FOCUS_LENGTH, MAX_FOCUS_LENGTH + 1}

RECURSIVE Texts(_)
Texts(k) ==
    IF k = 0 THEN {<<>>}
    ELSE LET shorter == Texts(k - 1) IN
         shorter \cup
         UNION {{Append(t, Run(c, n)) :
                    c \in {x \in FocusChars : t = <<>> \/ t[Len(t)].c # x},
                    n \in RunLengths} :
                t \in {u \in shorter : Len(u) = k - 1}}

FocusStrings == Texts(MaxRuns) \cup {GENERAL, SEC_URITY}

FocusLines ==
    {Json(Obj([method |-> "tools/call", id |-> "7",
               params |-> Obj([name |-> "code_review",
                               arguments |-> Obj([code |-> GoodCode, focus |-> Str(f)])])])) :
        f \in FocusStrings}

FocusNext ==
    \/ init_grok
    \/ handle_shutdown
    \/ LoopTest
    \/ ReadEOF
    \/ \E l \in FocusLines : nread = 0 /\ ReadLine(l)
    \/ \E http \in HttpOutcomes : GatewayReturn(http)

FocusSpec == Init /\ [][FocusNext]_vars

\* ------------------------------------------------- vocabulary of the claims
IsObject(l) == l.kind = "json" /\ IsDict(l.value)
MethodOf(l) == Get(l.value.o, "method", None)
IdOf(l) == Get(l.value.o, "id", None)
ParamsOf(l) == Get(l.value.o, "params", Obj(EmptyMap))

\* The step reads a line (line' is that line).
ReadStep == nread' = nread + 1
\* The step is the return of the outbound call.
ReturnStep == pc = "call" /\ pc' # "call"

\* The step writes exactly one line, with the id given, at the end of stdout.
WritesOne(id) ==
    /\ Len(stdout') = Len(stdout) + 1
    /\ SubSeq(stdout', 1, Len(stdout)) = stdout
    /\ stdout'[Len(stdout')].id = id
    /\ sent' # NoLine
    /\ sent'.id = id
    /\ stdout'[Len(stdout')] = Envelope(sent')
WritesNone == stdout' = stdout

WritesError(id, code) == WritesOne(id) /\ IsError(sent') /\ sent'.error.code = code
WritesResult(id) == WritesOne(id) /\ IsResult(sent')

\* The line is answered by this iteration: at once, or after the outbound
\* call it has entered (no line is written while the call is in progress).
AnsweredOrCalling(id) ==
    \/ pc' = "top" /\ WritesOne(id)
    \/ pc' = "call" /\ WritesNone /\ request_id' = id

\* --------------------------------------------------------------------- C1
\* A request: a decoded object whose method is not a notification method.
IsRequest(l) == IsObject(l) /\ MethodOf(l) \notin NotificationMethods

\* C1: every line that decodes to a request with a non-null id causes
\* exactly one response line, which echoes the id and is written by the
\* iteration that read the line, before the next line is read; and no other
\* line causes a response with an id it does not carry, so the responses
\* with an id are those of the requests, in the order read, none twice.
C1_StrictFifo ==
    [][ /\ (ReadStep /\ IsRequest(line') /\ IdOf(line') # None)
            => (pc = "read" /\ AnsweredOrCalling(IdOf(line')))
        /\ ReturnStep => (pc' = "top" /\ WritesOne(IdOf(line)) /\ line' = line)
        /\ (ReadStep /\ stdout' # stdout /\ stdout'[Len(stdout')].id # None)
            => (IsObject(line') /\ IdOf(line') = stdout'[Len(stdout')].id)
      ]_vars

\* --------------------------------------------------------------------- C2
\* C2: the loop stops only at the loop test with the stop flag set or at a
\* readline() that returns end-of-input; a step that reads a line, whatever
\* the line, and the return of the outbound call lead back to the loop test.
C2_ExitOnlyOnEofOrSignal ==
    [][ /\ (pc # "stopped" /\ pc' = "stopped")
            => \/ pc = "top" /\ shutdown_requested
               \/ pc = "read" /\ nread' = nread /\ line' = line
        /\ ReadStep => pc' \in {"top", "call"}
        /\ ReturnStep => pc' = "top"
      ]_vars

\* A line answered with an internal error was followed by a line that was
\* read and answered with a result.
C2_Witness ==
    /\ pc = "top" /\ nread = 2 /\ Len(stdout) = 2
    /\ IsError(stdout[1]) /\ stdout[1].error.code = INTERNAL_ERROR
    /\ IsResult(stdout[2]) /\ sent = handle_initialize("2")

RaisesUncaught(l) ==
    /\ IsObject(l)
    /\ MethodOf(l) \in {"tools/call", "notifications/cancelled"}
    /\ ~IsDict(ParamsOf(l))

\* C4: when the handling of an object with a non-null id raises an uncaught
\* failure, exactly one error response with code -32603 and that id is
\* written and the loop returns to its test.
C4_UncaughtAnswered ==
    [][ (ReadStep /\ RaisesUncaught(line') /\ IdOf(line') # None)
            => (WritesError(IdOf(line'), INTERNAL_ERROR) /\ pc' = "top")
      ]_vars

\* tools/call with id 7 and a params that is no mapping was answered.
C4_Witness ==
    /\ pc = "top" /\ RaisesUncaught(line) /\ MethodOf(line) = "tools/call"
    /\ IdOf(line) = "7" /\ sent # NoLine /\ IsError(sent) /\ sent.id = "7"
    /\ sent.error.code = INTERNAL_ERROR

\* --------------------------------------------------------------------- C5
\* C5 as stated: a line whose method is notifications/initialized or
\* notifications/cancelled writes nothing to standard output, whatever its
\* id and params are.
C5_NotificationSilent ==
    [][ (ReadStep /\ IsObject(line') /\ MethodOf(line') \in NotificationMethods)
            => (WritesNone /\ sent' = NoLine)
      ]_vars

\* --------------------------------------------------------------------- C6
KnownMethods ==
    {"initialize", "tools/list", "tools/call", "resources/list", "prompts/list"}
    \cup NotificationMethods

\* C6: an object whose method is none of the seven known methods is answered
\* with exactly one error response with code -32601 and the request's id.
C6_UnknownMethod ==
    [][ (ReadStep /\ IsObject(line') /\ MethodOf(line') \notin KnownMethods)
            => (WritesError(IdOf(line'), METHOD_NOT_FOUND) /\ ~IsResult(sent') /\ pc' = "top")
      ]_vars

\* The request {method: "frobnicate", id: "1"} was answered with -32601.
C6_Witness ==
    /\ IsObject(line) /\ MethodOf(line) = "frobnicate" /\ IdOf(line) = "1"
    /\ sent # NoLine /\ IsError(sent) /\ sent.id = "1"
    /\ sent.error.code = METHOD_NOT_FOUND

\* --------------------------------------------------------------------- C7
\* The credential is absent: XAI_API_KEY is unset or empty.
CredentialAbsent == environ = None \/ environ = ""

ToolNamesOf(r) == [i \in 1..Len(r.result.tools) |-> r.result.tools[i].name]

\* C7: every tools/list is answered with a result that lists, when the
\* credential is absent, exactly server_info and, when it is present,
\* exactly ask, code_review and brainstorm.
C7_ToolsList ==
    [][ (ReadStep /\ IsObject(line') /\ MethodOf(line') = "tools/list")
            => /\ WritesResult(IdOf(line'))
               /\ ToolNamesOf(sent') = IF CredentialAbsent THEN <<"server_info">>
                                       ELSE <<"ask", "code_review", "brainstorm">>
      ]_vars

\* With an empty credential a tools/list was answered with the one tool.
C7_Witness ==
    /\ environ = "" /\ IsObject(line) /\ MethodOf(line) = "tools/list"
    /\ sent # NoLine /\ IsResult(sent) /\ ToolNamesOf(sent) = <<"server_info">>

\* --------------------------------------------------------------------- C8
GatewayTools == {"ask", "code_review", "brainstorm"}

\* A tools/call whose params is a mapping naming the tool given.
CallsTool(l, names) ==
    /\ IsObject(l) /\ MethodOf(l) = "tools/call" /\ IsDict(ParamsOf(l))
    /\ Get(ParamsOf(l).o, "name", None) \in names

TextOf(r) == r.result.content[1].text

\* C8: in degraded mode no step enters the outbound call, and every
\* tools/call of ask, code_review or brainstorm is answered with a result
\* that carries the unavailability text.
C8_DegradedShortCircuit ==
    [][ (pc # "init" /\ CredentialAbsent)
            => /\ pc' # "call" /\ inflight' = NoCall
               /\ (ReadStep /\ CallsTool(line', GatewayTools))
                    => /\ WritesResult(IdOf(line'))
                       /\ TextOf(sent') = <<"GROK RESPONSE:\n\n", "Grok not available: ",
                                            "XAI_API_KEY environment variable is not set">>
      ]_vars

\* In degraded mode an ask with a blank prompt got the unavailability text.
C8_Witness ==
    /\ CredentialAbsent /\ CallsTool(line, {"ask"})
    /\ Get(ParamsOf(line).o, "arguments", NonObj) = Obj([prompt |-> Str(<<Run(" ", 2)>>)])
    /\ sent # NoLine /\ IsResult(sent) /\ TextOf(sent)[2] = "Grok not available: "

\* --------------------------------------------------------------------- C9
RequiredField(name) ==
    CASE name = "ask" -> "prompt" [] name = "code_review" -> "code"
      [] name = "brainstorm" -> "topic"

\* A tools/call of ask, code_review or brainstorm whose arguments is a
\* mapping in which the required field is missing or is a string that is
\* empty after strip().
RequiredMissingOrBlank(l) ==
    /\ CallsTool(l, GatewayTools)
    /\ LET arguments == Get(ParamsOf(l).o, "arguments", Obj(EmptyMap))
           field == RequiredField(ParamsOf(l).o.name)
       IN /\ IsDict(arguments)
          /\ \/ field \notin DOMAIN arguments.o
             \/ arguments.o[field].t = "str" /\ Strip(arguments.o[field].s) = <<>>

\* C9 as stated: such a call is always answered with an error response with
\* code -32603 and the request's id, and the outbound call is not entered.
C9_BlankAlwaysError ==
    [][ (ReadStep /\ RequiredMissingOrBlank(line'))
            => (WritesError(IdOf(line'), INTERNAL_ERROR) /\ pc' = "top")
      ]_vars

\* C9 (amended): with the gateway available, such a call is answered with an
\* error response with code -32603 and the request's id, and the outbound
\* call is not entered.
C9_BlankErrorWhenAvailable ==
    [][ (ReadStep /\ GROK_AVAILABLE /\ RequiredMissingOrBlank(line'))
            => (WritesError(IdOf(line'), INTERNAL_ERROR) /\ pc' = "top"
                /\ inflight' = NoCall)
      ]_vars

\* With the gateway available, ask with prompt "  " and id 7 was answered
\* with an error response with id 7.
C9_Witness ==
    /\ GROK_AVAILABLE /\ CallsTool(line, {"ask"}) /\ IdOf(line) = "7"
    /\ Get(ParamsOf(line).o, "arguments", NonObj) = Obj([prompt |-> Str(<<Run(" ", 2)>>)])
    /\ pc = "top" /\ sent # NoLine /\ IsError(sent) /\ sent.id = "7"
    /\ sent.error = [code |-> INTERNAL_ERROR, message |-> <<"prompt cannot be empty">>]

\* -------------------------------------------------------------------- C10
\* C10: whatever the outcome of the outbound call, its return writes exactly
\* one result response, with the id of the request that made the call and a
\* text that begins with the fixed label.
C10_GatewayOutcomeIsResult ==
    [][ ReturnStep
            => /\ GROK_AVAILABLE /\ CallsTool(line, GatewayTools)
               /\ WritesResult(IdOf(line))
               /\ TextOf(sent')[1] = "GROK RESPONSE:\n\n" /\ Len(TextOf(sent')) > 1
               /\ pc' = "top"
      ]_vars

\* A timed-out call was answered with a result carrying the timeout text.
C10_Witness ==
    /\ pc = "top" /\ CallsTool(line, {"code_review"}) /\ sent # NoLine /\ IsResult(sent)
    /\ TextOf(sent) = <<"GROK RESPONSE:\n\n", "Error calling Grok: Request timed out">>

\* -------------------------------------------------------------------- C11
AllTools == GatewayTools \cup {"server_info"}

\* A tools/call whose params is a mapping that names none of the four tools
\* (or gives no name).
CallsUnknownTool(l) ==
    /\ IsObject(l) /\ MethodOf(l) = "tools/call" /\ IsDict(ParamsOf(l))
    /\ Get(ParamsOf(l).o, "name", None) \notin AllTools

\* C11: in full and in degraded mode, a tools/call of an unknown tool is
\* answered with exactly one error response with code -32603 and the
\* request's id, whose message is the one raised inside handle_tool_call
\* (not the "Internal error" of the loop's own handler), and the outbound
\* call is not entered.
C11_UnknownTool ==
    [][ (ReadStep /\ CallsUnknownTool(line'))
            => /\ WritesError(IdOf(line'), INTERNAL_ERROR)
               /\ sent'.error.message
                    = <<"Unknown tool: ", Get(ParamsOf(line').o, "name", None)>>
               /\ pc' = "top" /\ inflight' = NoCall
      ]_vars

\* In full mode a tools/call without a name, and with id 7, was answered
\* with the unknown-tool error.
C11_Witness ==
    /\ GROK_AVAILABLE /\ pc = "top" /\ CallsUnknownTool(line) /\ IdOf(line) = "7"
    /\ "name" \notin DOMAIN ParamsOf(line).o
    /\ sent # NoLine /\ IsError(sent) /\ sent.id = "7"
    /\ sent.error = [code |-> INTERNAL_ERROR, message |-> <<"Unknown tool: ", None>>]

\* -------------------------------------------------------------------- C12
\* The step of the signal handler.
SignalStep == shutdown_requested' # shutdown_requested

\* C12: a shutdown signal changes the stop flag and nothing else, so the
\* iteration in progress runs to its end: a tools/call whose line was read
\* still gets its one response, with its id, when the outbound call
\* returns.  At the loop test that follows, with the flag set, the loop
\* stops without reading a line or writing a response.  The flag is never
\* cleared and the stopped loop takes no step.
C12_CooperativeShutdown ==
    [][ /\ SignalStep
            => /\ shutdown_requested'
               /\ UNCHANGED <<pc, request_id, line, nread, stdout, sent, inflight>>
        /\ shutdown_requested => shutdown_requested'
        /\ (shutdown_requested /\ ReturnStep)
            => (WritesOne(IdOf(line)) /\ pc' = "top" /\ line' = line)
        /\ (shutdown_requested /\ pc = "top")
            => (pc' \in {"top", "stopped"} /\ WritesNone /\ nread' = nread)
        /\ pc = "stopped" => UNCHANGED vars
      ]_vars

\* The loop stopped on the flag after it answered the one tools/call it had
\* read, and more input was still possible.
C12_Witness ==
    /\ pc = "stopped" /\ shutdown_requested /\ nread = 1 /\ nread < MaxLines
    /\ CallsTool(line, GatewayTools)
    /\ sent # NoLine /\ IsResult(sent) /\ sent.id = IdOf(line)
    /\ stdout = <<Envelope(sent)>>

\* -------------------------------------------------------------------- C13
\* The steps the program takes by itself are taken: startup, the loop
\* test, and the return of the HTTP exchange, which requests.post bounds
\* with timeout=120.  What readline() returns, and when, is the peer's
\* choice: no fairness on ReadLine or ReadEOF.
FairSpec ==
    /\ Spec
    /\ WF_vars(init_grok)
    /\ WF_vars(LoopTest)
    /\ WF_vars(\E http \in HttpOutcomes : GatewayReturn(http))

\* C13: once the stop flag is set the loop eventually stops, whatever the
\* loop was doing when the signal arrived and whether or not any further
\* line or end-of-input arrives.
C13_SignalStops == shutdown_requested ~> (pc = "stopped")

\* -------------------------------------------------------------------- C14
\* One JSON-RPC response object: the version, an id, and exactly one of
\* result and error.
IsEnvelope(e) ==
    /\ DOMAIN e \subseteq {"jsonrpc", "id", "result", "error"}
    /\ "jsonrpc" \in DOMAIN e /\ e.jsonrpc = "2.0"
    /\ "id" \in DOMAIN e
    /\ ("result" \in DOMAIN e) # ("error" \in DOMAIN e)

\* C14: every line on standard output is one response envelope with an id
\* and exactly one of result and error, and the line the current iteration
\* wrote is the serialisation of the response it built: nothing else (log
\* text, part of a line) is on standard output.
C14_StdoutOnlyEnvelopes ==
    /\ \A i \in 1..Len(stdout) : IsEnvelope(stdout[i])
    /\ sent # NoLine
        => /\ IsEnvelope(sent)
           /\ stdout # <<>> /\ stdout[Len(stdout)] = Envelope(sent)

\* Standard output holds a result line followed by an error line.
C14_Witness ==
    /\ Len(stdout) = 2
    /\ "result" \in DOMAIN stdout[1] /\ "error" \in DOMAIN stdout[2]
    /\ sent # NoLine /\ IsError(sent)

\* -------------------------------------------------------------------- C15
\* C15: the loop is sequential.  A line is read only when the iteration of
\* the line before is over (its response, if it has one, is written and no
\* outbound call is pending); an outbound call is entered only by the read
\* of a tools/call line, one per line, and while it is pending nothing is
\* read or written; its return writes the one response of that line.  The
\* HTTP request of a line is posted at most once.
C15_Sequential ==
    /\ [](/\ posts \in {0, 1}
          /\ (pc = "call") = (inflight # NoCall)
          /\ pc = "call" => (posts = 1 /\ sent = NoLine))
    /\ [][ /\ ReadStep
                => /\ pc = "read" /\ inflight = NoCall
                   /\ \/ WritesNone
                      \/ /\ pc' # "call" /\ sent' # NoLine
                         /\ stdout' = Append(stdout, Envelope(sent'))
           /\ (pc' = "call" /\ pc # "call")
                => (ReadStep /\ CallsTool(line', GatewayTools) /\ WritesNone)
           /\ pc = "call"
                => (nread' = nread /\ line' = line /\ (WritesNone \/ ReturnStep))
           /\ ReturnStep
                => (WritesOne(IdOf(line)) /\ pc' = "top" /\ inflight' = NoCall)
           /\ posts' # posts => ReadStep
         ]_vars

\* Two tools/call lines were read and answered in turn, the second after
\* one HTTP request.
C15_Witness ==
    /\ nread = 2 /\ Len(stdout) = 2 /\ pc = "top" /\ posts = 1 /\ inflight = NoCall
    /\ CallsTool(line, GatewayTools)
    /\ sent # NoLine /\ IsResult(sent) /\ stdout[2] = Envelope(sent)
    /\ "result" \in DOMAIN stdout[1]

\* -------------------------------------------------------------------- C16
\* p is a prefix of t (both with adjacent runs of different characters).
RECURSIVE IsPrefix(_, _)
IsPrefix(p, t) ==
    \/ p = <<>>
    \/ /\ t # <<>> /\ Head(p).c = Head(t).c
       /\ \/ Head(p).n = Head(t).n /\ IsPrefix(Tail(p), Tail(t))
          \/ Head(p).n < Head(t).n /\ Tail(p) = <<>>

\* out is what truncation to max makes of the string in: in itself when it
\* is short enough, else its prefix of length max; truncating out again
\* changes nothing.
IsTruncation(out, in, max) ==
    /\ StrLen(in) <= max => out = in
    /\ StrLen(in) > max => (StrLen(out) = max /\ IsPrefix(out, in))
    /\ truncate_input(out, max, "again") = out

\* The string fields of the tools/call arguments a, as forwarded in the
\* prompt p, are the truncations of the ones given.
ForwardsTruncations(a, p) ==
    CASE p.template = "ask" -> IsTruncation(p.prompt, a.prompt.s, MAX_PROMPT_LENGTH)
      [] p.template = "code_review" -> IsTruncation(p.code, a.code.s, MAX_CODE_LENGTH)
      [] p.template = "brainstorm" ->
            /\ IsTruncation(p.topic, a.topic.s, MAX_PROMPT_LENGTH)
            /\ \A i \in 1..Len(p.context) :
                  p.context[i].t = "str"
                      => IsTruncation(p.context[i].s, a.context.s, MAX_PROMPT_LENGTH)

\* No field of the prompt of the pending call is longer than its maximum.
ForwardedWithinLimits ==
    pc = "call" =>
        LET p == inflight.prompt IN
        CASE p.template = "ask" -> StrLen(p.prompt) <= MAX_PROMPT_LENGTH
          [] p.template = "code_review" -> StrLen(p.code) <= MAX_CODE_LENGTH
          [] p.template = "brainstorm" ->
                /\ StrLen(p.topic) <= MAX_PROMPT_LENGTH
                /\ \A i \in 1..Len(p.context) : FormatLen(p.context[i]) <= MAX_PROMPT_LENGTH

\* C16: what a tools/call forwards for prompt, code, topic and context is
\* the truncation of what it was given (unchanged up to the maximum, else
\* the prefix of exactly the maximum length, and truncation is idempotent),
\* and no forwarded field is longer than its maximum.
C16_TruncationBounds ==
    /\ []ForwardedWithinLimits
    /\ [][ (ReadStep /\ pc' = "call")
               => ForwardsTruncations(ParamsOf(line').o.arguments.o, inflight'.prompt)
         ]_vars

\* -------------------------------------------------------------------- C17
\* The step forwards a code_review whose arguments give a focus string.
ForwardsFocus ==
    /\ ReadStep /\ pc' = "call" /\ inflight'.tool = "code_review"
    /\ "focus" \in DOMAIN ParamsOf(line').o.arguments.o
GivenFocus(l) == ParamsOf(l).o.arguments.o.focus.s

\* The first k characters of s are all whitespace.
RECURSIVE OnlySpaces(_, _)
OnlySpaces(s, k) ==
    \/ s = <<>> \/ k <= 0
    \/ IsSpace(Head(s).c) /\ OnlySpaces(Tail(s), k - Head(s).n)

\* The input cut to 50 characters, newlines replaced by spaces, trimmed.
CutFocus(f) == Strip(ReplaceNewlines(Slice(f, MAX_FOCUS_LENGTH)))

\* "sec urity!!"
SEC_SPACE_URITY ==
    <<Run("s", 1), Run("e", 1), Run("c", 1), Run(" ", 1), Run("u", 1), Run("r", 1),
      Run("i", 1), Run("t", 1), Run("y", 1), Run("!", 2)>>

\* g has no newline, at most 50 characters, and no whitespace at either end.
WellFormedFocus(g) ==
    /\ \A i \in 1..Len(g) : g[i].c # "\n"
    /\ StrLen(g) <= MAX_FOCUS_LENGTH
    /\ g # <<>> /\ ~IsSpace(g[1].c) /\ ~IsSpace(g[Len(g)].c)

\* C17 as stated: the focus embedded in the prompt has no newline and at
\* most 50 characters, and it is "general" exactly when the input, cut,
\* with newlines replaced and trimmed, is empty.
C17_GeneralIffEmpty ==
    [][ ForwardsFocus
            => LET f == GivenFocus(line')
                   g == inflight'.prompt.focus
               IN /\ WellFormedFocus(g)
                  /\ (g = GENERAL) = (CutFocus(f) = <<>>)
                  /\ f = SEC_URITY => g = SEC_SPACE_URITY
      ]_vars

\* C17, amended: the focus embedded in the prompt has no newline and at
\* most 50 characters; it is "general" when the first 50 characters of the
\* input are all whitespace (the cut, replaced and trimmed input is empty),
\* and otherwise it is the cut, replaced and trimmed input, which may
\* itself be "general".
C17_SanitizedFocus ==
    [][ ForwardsFocus
            => LET f == GivenFocus(line')
                   g == inflight'.prompt.focus
               IN /\ WellFormedFocus(g)
                  /\ OnlySpaces(f, MAX_FOCUS_LENGTH) = (CutFocus(f) = <<>>)
                  /\ CutFocus(f) = <<>> => g = GENERAL
                  /\ CutFocus(f) # <<>> => g = CutFocus(f)
                  /\ f = SEC_URITY => g = SEC_SPACE_URITY
      ]_vars

\* The call with focus "sec\nurity!!" is pending with focus "sec urity!!".
C17_Witness ==
    /\ pc = "call" /\ inflight.tool = "code_review"
    /\ GivenFocus(line) = SEC_URITY
    /\ inflight.prompt.focus = SEC_SPACE_URITY

\* -------------------------------------------------------------------- C18
\* C18: with and without the credential, and whatever its arguments are, a
\* tools/call of server_info is answered at once with one result response
\* with the request's id, whose text says that Grok is connected when the
\* credential is present and gives the startup error when it is not; the
\* outbound call is not entered and no HTTP request is made.
C18_ServerInfoNeverFails ==
    [][ (ReadStep /\ CallsTool(line', {"server_info"}))
            => /\ WritesResult(IdOf(line'))
               /\ pc' = "top" /\ inflight' = NoCall /\ posts' = 0
               /\ TextOf(sent') =
                     IF CredentialAbsent
                     THEN <<"GROK RESPONSE:\n\n", "Server v", VERSION, " - Grok error: ",
                            "XAI_API_KEY environment variable is not set">>
                     ELSE <<"GROK RESPONSE:\n\n", "Server v", VERSION,
                            " - Grok connected and ready! Model: ", DEFAULT_MODEL>>
      ]_vars

\* In degraded mode a server_info call whose arguments is not a mapping got
\* its result.
C18_Witness ==
    /\ CredentialAbsent /\ pc = "top" /\ CallsTool(line, {"server_info"})
    /\ "arguments" \in DOMAIN ParamsOf(line).o /\ ~IsDict(ParamsOf(line).o.arguments)
    /\ sent # NoLine /\ IsResult(sent) /\ sent.id = IdOf(line)
    /\ TextOf(sent)[3] = VERSION /\ TextOf(sent)[4] = " - Grok error: "

\* -------------------------------------------------------------------- C19
Configuration == <<environ, API_KEY, GROK_AVAILABLE, GROK_ERROR>>

ListsTools(l) == IsObject(l) /\ MethodOf(l) = "tools/list"

\* C19: the credential, the availability flag and the error text are
\* written by startup alone, from the environment, and no later step
\* changes them (the model id is a constant of the run); every tools/list
\* response of the run therefore carries the one tool list that the
\* environment at startup determines.  The stop flag is changed only by the
\* signal handler, which changes nothing else.
C19_ConfigurationFrozen ==
    [][ /\ pc # "init" => UNCHANGED Configuration
        /\ pc = "init"
            => /\ environ' = environ
               /\ pc' # "init"
                    => /\ API_KEY' = environ
                       /\ GROK_AVAILABLE' = ~CredentialAbsent
                       /\ GROK_ERROR' = IF CredentialAbsent
                                        THEN "XAI_API_KEY environment variable is not set"
                                        ELSE ""
        /\ (ReadStep /\ ListsTools(line'))
            => /\ WritesResult(IdOf(line'))
               /\ sent'.result = [tools |-> IF CredentialAbsent THEN DegradedTools
                                            ELSE FullTools]
        /\ SignalStep
            => UNCHANGED <<Configuration, pc, request_id, line, nread, stdout, sent,
                           inflight, posts, nonblank>>
      ]_vars

\* After a first line and a shutdown signal, a tools/list read as second
\* line was answered with the full tool list, the configuration being the
\* one startup wrote.
C19_Witness ==
    /\ nread = 2 /\ Len(stdout) = 2 /\ shutdown_requested
    /\ ListsTools(line) /\ sent # NoLine /\ IsResult(sent)
    /\ ToolNamesOf(sent) = <<"ask", "code_review", "brainstorm">>
    /\ GROK_AVAILABLE /\ API_KEY = environ /\ GROK_ERROR = ""

\* -------------------------------------------------------------------- C20
\* The line decodes to a JSON value that is not an object.
IsNonObject(l) == l.kind = "json" /\ ~IsDict(l.value)

\* C20: a line that decodes to a JSON value other than an object writes
\* nothing to standard output, and every response a step writes carries
\* the id of the request on the line that step (or, for a pending call, the
\* read before it) took in.
C20_NonObjectSilent ==
    [][ /\ (ReadStep /\ IsNonObject(line')) => WritesNone
        /\ (ReadStep /\ ~WritesNone) => IsObject(line')
        /\ (ReadStep /\ ~WritesNone /\ IsObject(line')) => sent'.id = IdOf(line')
      ]_vars

\* -------------------------------------------------------------------- C21
\* The methods main() routes to a handler that does not look at params, and
\* any method it does not know (a missing method among them).
RoutedWithoutId(l) ==
    /\ IsObject(l) /\ IdOf(l) = None
    /\ MethodOf(l) \notin NotificationMethods \cup {"tools/call"}

\* C21: standard output never holds more lines than non-blank lines were
\* read, since an iteration writes at most one line and a blank line none;
\* and a message whose id is missing or null and whose method is
\* initialize, tools/list, resources/list, prompts/list or unknown is
\* answered by its iteration with exactly one response, with id null: a
\* result for the four known methods, error -32601 for an unknown one.
C21_OneLinePerIteration ==
    /\ [](Len(stdout) <= nonblank /\ nonblank <= nread)
    /\ [][ /\ Len(stdout') <= Len(stdout) + 1
           /\ (ReadStep /\ line'.kind = "blank") => WritesNone
           /\ (ReadStep /\ RoutedWithoutId(line'))
                => /\ WritesOne(None) /\ pc' = "top"
                   /\ IF MethodOf(line') \in KnownMethods
                      THEN IsResult(sent')
                      ELSE IsError(sent') /\ sent'.error.code = METHOD_NOT_FOUND
         ]_vars

\* After a blank line, an initialize without id was answered with a result
\* whose id is null, the one line on standard output.
C21_Witness ==
    /\ nread = 2 /\ nonblank = 1 /\ pc = "top"
    /\ IsObject(line) /\ MethodOf(line) = "initialize" /\ "id" \notin DOMAIN line.value.o
    /\ sent # NoLine /\ IsResult(sent) /\ sent.id = None
    /\ stdout = <<Envelope(sent)>>

====
